---- MODULE Spec2Model ----
(***************************************************************************)
(* Symbolic multipole expansion: the index-pairing generator, the         *)
(* symmetric-traceless tensor Q, the Cartesian derivatives of 1/r, the    *)
(* Einstein-summation contraction engine and the formula assembly layer.  *)
(*                                                                         *)
(* An expression is kept in expanded normal form: a function from         *)
(* monomials to non-zero rational coefficients, a monomial being a        *)
(* function from factors to non-zero integer exponents.  Equality of two  *)
(* such functions is equality of expressions up to commutativity and      *)
(* associativity of sums and products.                                     *)
(***************************************************************************)
EXTENDS Integers, Sequences, FiniteSets, TLC

\* Largest multipole order n (and number of generated index labels i1..in).
MaxN == 4

\* Index labels: i1, i2, ... are 1, 2, ...; the hand-written labels "i" and
\* "j" of the Taylor terms are LabI and LabJ.
LabI == 101
LabJ == 102

\* The label "i1" that expand_dot_products writes: the first generic label.
LabI1 == 1

\* Labels the two-factor products of the contraction catalogue range over.
MaxLabel == 3

(***************************************************************************)
(* Rational numbers <<numerator, denominator>>, reduced, denominator > 0.  *)
(***************************************************************************)
Abs(a) == IF a < 0 THEN -a ELSE a

RECURSIVE Gcd(_, _)
Gcd(a, b) == IF b = 0 THEN a ELSE Gcd(b, a % b)

Rat(a, b) ==
  LET s == IF b < 0 THEN -1 ELSE 1
      g == Gcd(Abs(a), Abs(b))
  IN  <<(s * a) \div g, (s * b) \div g>>

RNum(a) == <<a, 1>>

RAdd(p, q) == Rat(p[1] * q[2] + q[1] * p[2], p[2] * q[2])

RMul(p, q) == Rat(p[1] * q[1], p[2] * q[2])

RNeg(p) == <<-p[1], p[2]>>

(***************************************************************************)
(* Factors and monomials.                                                  *)
(***************************************************************************)
\* The symbols of TensorContraction.__init__.
xa(i) == [s |-> "xa", i |-> i, j |-> 0]
x(i) == [s |-> "x", i |-> i, j |-> 0]
n(i) == [s |-> "n", i |-> i, j |-> 0]
delta(i, j) == [s |-> "delta", i |-> i, j |-> j]
r0 == [s |-> "r0", i |-> 0, j |-> 0]
ra0 == [s |-> "ra0", i |-> 0, j |-> 0]
dot == [s |-> "dot", i |-> 0, j |-> 0]

\* The empty product.
MOne == [f \in {} |-> 0]

\* The monomial f^e.
MPow(f, e) == IF e = 0 THEN MOne ELSE [g \in {f} |-> e]

MExp(m, f) == IF f \in DOMAIN m THEN m[f] ELSE 0

\* Product of two monomials: exponents add, factors of exponent 0 vanish.
MMul(a, b) ==
  LET D == {f \in DOMAIN a \cup DOMAIN b : MExp(a, f) + MExp(b, f) # 0}
  IN  [f \in D |-> MExp(a, f) + MExp(b, f)]

\* The monomial m without the factors in F.
MDrop(m, F) == [f \in DOMAIN m \ F |-> m[f]]

(***************************************************************************)
(* Expressions in expanded normal form.                                    *)
(***************************************************************************)
RECURSIVE SumCoef(_)
SumCoef(T) ==
  IF T = {} THEN RNum(0)
  ELSE LET t == CHOOSE u \in T : TRUE
       IN  RAdd(t[2], SumCoef(T \ {t}))

\* The sum of the terms <<tag, coefficient, monomial>> of T: equal monomials
\* are collected and terms with coefficient 0 dropped.
Normal(T) ==
  LET c(m) == SumCoef({t \in T : t[3] = m})
      M == {m \in {t[3] : t \in T} : c(m)[1] # 0}
  IN  [m \in M |-> c(m)]

Zero == [m \in {} |-> RNum(0)]

\* Expression.num(a).
Num(a) == IF a = 0 THEN Zero ELSE [m \in {MOne} |-> RNum(a)]

\* A single factor as an expression.
Atom(f) == [m \in {MPow(f, 1)} |-> RNum(1)]

Add(p, q) ==
  Normal({<<1, p[m], m>> : m \in DOMAIN p} \cup {<<2, q[m], m>> : m \in DOMAIN q})

Neg(p) == [m \in DOMAIN p |-> RNeg(p[m])]

Sub(p, q) == Add(p, Neg(q))

Mul(p, q) ==
  Normal({<<<<a, b>>, RMul(p[a], q[b]), MMul(a, b)>> : a \in DOMAIN p, b \in DOMAIN q})

\* p * f^e and p * c for a factor f, an integer e and a rational c.
MulPow(p, f, e) == Mul(p, [m \in {MPow(f, e)} |-> RNum(1)])

Scale(p, c) == IF c[1] = 0 THEN Zero ELSE [m \in DOMAIN p |-> RMul(c, p[m])]

(***************************************************************************)
(* The index-pairing generator.                                            *)
(***************************************************************************)
\* The pairs with the inner range starting at i instead of i + 1.
AllPairs_from_i(nn) ==
  LET S == {p \in (0 .. nn - 1) \X (0 .. nn - 1) : p[1] <= p[2]}
      before(p) == {q \in S : q[1] < p[1] \/ (q[1] = p[1] /\ q[2] < p[2])}
  IN  [t \in 1 .. Cardinality(S) |-> CHOOSE p \in S : Cardinality(before(p)) = t - 1]

\* [(i, j) for i in range(n) for j in range(i + 1, n)], in that order.
AllPairs(nn) ==
  LET S == {p \in (0 .. nn - 1) \X (0 .. nn - 1) : p[1] < p[2]}
      before(p) == {q \in S : q[1] < p[1] \/ (q[1] = p[1] /\ q[2] < p[2])}
  IN  [t \in 1 .. Cardinality(S) |-> CHOOSE p \in S : Cardinality(before(p)) = t - 1]

\* [idx for idx in range(n) if idx != i and idx != j].
Remaining(nn, i, j) ==
  SelectSeq([t \in 1 .. nn |-> t - 1], LAMBDA v : v # i /\ v # j)

PairLess(p, q) == p[1] < q[1] \/ (p[1] = q[1] /\ p[2] < q[2])

RECURSIVE Insert(_, _)
Insert(p, s) ==
  IF s = <<>> THEN <<p>>
  ELSE IF PairLess(s[1], p) THEN <<s[1]>> \o Insert(p, Tail(s))
  ELSE <<p>> \o s

RECURSIVE SortPairs(_)
SortPairs(s) == IF s = <<>> THEN <<>> ELSE Insert(s[1], SortPairs(Tail(s)))

SortedPair(p) == IF p[1] <= p[2] THEN p ELSE <<p[2], p[1]>>

\* The pairing as written, its pairs not sorted.
Normalized_as_written(pairing) == pairing

\* tuple(sorted([tuple(sorted(p)) for p in pairing])).
Normalized(pairing) ==
  SortPairs([t \in 1 .. Len(pairing) |-> SortedPair(pairing[t])])

\* The generator without its de-duplication loop.
Unique_skipped(result) == result

\* The de-duplication loop: result[t] is kept when no earlier pairing of
\* the list has its normalized form (the form is then not yet in `seen`).
Unique(result) ==
  LET norm == [t \in 1 .. Len(result) |-> Normalized(result[t])]
      kept == {t \in 1 .. Len(result) : \A u \in 1 .. t - 1 : norm[u] # norm[t]}
      nth(c) == CHOOSE t \in kept : Cardinality({u \in kept : u < t}) = c - 1
  IN  [c \in 1 .. Cardinality(kept) |-> result[nth(c)]]

\* The pairing built without mapping the sub-pairing's positions back through
\* `remaining`.
MappedPairing_unmapped(first, rem, sub) == <<first>> \o sub

\* The pairing [first_pair] + mapped_pairing.
MappedPairing(first, rem, sub) ==
  <<first>> \o [u \in 1 .. Len(sub) |-> <<rem[sub[u][1] + 1], rem[sub[u][2] + 1]>>]

\* The list `result` of the two nested loops for k >= 2: for every first
\* pair in order, every sub-pairing in order.  `remaining` has nn - 2
\* entries for every first pair, so the sub-pairings are the same list
\* subs for all of them.
RawFrom(nn, k, subs) ==
  LET pairs == AllPairs(nn)
      S == Len(subs)
  IN  [c \in 1 .. Len(pairs) * S |->
         LET first == pairs[((c - 1) \div S) + 1]
         IN  MappedPairing(first, Remaining(nn, first[1], first[2]),
                           subs[((c - 1) % S) + 1])]

RECURSIVE generate_k_pairings(_, _)
RawPairings(nn, k) ==
  RawFrom(nn, k, IF nn - 2 >= 2 * (k - 1) THEN generate_k_pairings(nn - 2, k - 1) ELSE <<>>)

\* MultipoleMoments._generate_k_pairings.
generate_k_pairings(nn, k) ==
  IF k = 0 THEN << <<>> >>
  ELSE IF k = 1 THEN [t \in 1 .. Len(AllPairs(nn)) |-> <<AllPairs(nn)[t]>>]
  ELSE Unique(RawPairings(nn, k))

\* DerivativeEngine._generate_k_pairings: the second copy of the generator.
RECURSIVE de_generate_k_pairings(_, _)
de_RawPairings(nn, k) ==
  RawFrom(nn, k, IF nn - 2 >= 2 * (k - 1) THEN de_generate_k_pairings(nn - 2, k - 1) ELSE <<>>)

\* The second copy of the generator without its de-duplication loop.
de_generate_k_pairings_with_duplicates(nn, k) ==
  IF k = 0 THEN << <<>> >>
  ELSE IF k = 1 THEN [t \in 1 .. Len(AllPairs(nn)) |-> <<AllPairs(nn)[t]>>]
  ELSE de_RawPairings(nn, k)

de_generate_k_pairings(nn, k) ==
  IF k = 0 THEN << <<>> >>
  ELSE IF k = 1 THEN [t \in 1 .. Len(AllPairs(nn)) |-> <<AllPairs(nn)[t]>>]
  ELSE Unique(de_RawPairings(nn, k))

(***************************************************************************)
(* The symmetric-traceless tensor Q.                                       *)
(***************************************************************************)
RECURSIVE double_factorial(_)
double_factorial(m) ==
  IF m <= 0 THEN 1 ELSE IF m = 1 THEN 1 ELSE m * double_factorial(m - 2)

RECURSIVE factorial(_)
factorial(m) == IF m <= 0 THEN 1 ELSE m * factorial(m - 1)

\* The positions a pairing covers.
PairedPositions(pairing) ==
  {pairing[t][1] : t \in 1 .. Len(pairing)} \cup {pairing[t][2] : t \in 1 .. Len(pairing)}

RECURSIVE MProd(_)
\* The product of a sequence of factors.
MProd(fs) == IF fs = <<>> THEN MOne ELSE MMul(MPow(fs[1], 1), MProd(Tail(fs)))

\* One term of the pairing sum with the unpaired labels read from the front
\* of the index list instead of from the unpaired positions.
PairingTerm_front_labels(pairing, indices, nn, sym) ==
  LET deltas == [t \in 1 .. Len(pairing) |->
                   delta(indices[pairing[t][1] + 1], indices[pairing[t][2] + 1])]
      vecs == [t \in 1 .. nn - 2 * Len(pairing) |-> [s |-> sym, i |-> indices[t], j |-> 0]]
  IN  MProd(deltas \o vecs)

\* One term of the pairing sum with the two labels of every delta written
\* in the opposite slots.
PairingTerm_swapped_slots(pairing, indices, nn, sym) ==
  LET deltas == [t \in 1 .. Len(pairing) |->
                   delta(indices[pairing[t][2] + 1], indices[pairing[t][1] + 1])]
      free == SelectSeq([t \in 1 .. nn |-> t - 1],
                        LAMBDA pos : pos \notin PairedPositions(pairing))
      vecs == [t \in 1 .. Len(free) |-> [s |-> sym, i |-> indices[free[t] + 1], j |-> 0]]
  IN  MProd(deltas \o vecs)

\* One term of the pairing sum: a delta for each pair, then the vector
\* symbol sym for each unpaired position.
PairingTerm(pairing, indices, nn, sym) ==
  LET deltas == [t \in 1 .. Len(pairing) |->
                   delta(indices[pairing[t][1] + 1], indices[pairing[t][2] + 1])]
      free == SelectSeq([t \in 1 .. nn |-> t - 1],
                        LAMBDA pos : pos \notin PairedPositions(pairing))
      vecs == [t \in 1 .. Len(free) |-> [s |-> sym, i |-> indices[free[t] + 1], j |-> 0]]
  IN  MProd(deltas \o vecs)

\* The sum `total` of the terms of all pairings of a list.
PairingSum(all, indices, nn, sym) ==
  Normal({<<t, RNum(1), PairingTerm(all[t], indices, nn, sym)>> : t \in 1 .. Len(all)})

\* The product sym(indices[1]) * ... * sym(indices[nn]) times the number c.
VectorProduct(c, indices, sym) ==
  Mul(Num(c), [m \in {MProd([t \in 1 .. Len(indices) |->
                               [s |-> sym, i |-> indices[t], j |-> 0]])} |-> RNum(1)])

Q_0 == Num(1)

Q_1(i) == Atom(xa(i))

Q_2(i, j) ==
  LET term1 == Mul(Mul(Num(3), Atom(xa(i))), Atom(xa(j)))
      term2 == MulPow(Atom(delta(i, j)), ra0, 2)
  IN  Sub(term1, term2)

Q_3(i, j, k) ==
  LET term1 == Mul(Mul(Mul(Num(15), Atom(xa(i))), Atom(xa(j))), Atom(xa(k)))
      inner == Add(Add(Mul(Atom(delta(i, j)), Atom(xa(k))),
                       Mul(Atom(delta(i, k)), Atom(xa(j)))),
                   Mul(Atom(delta(j, k)), Atom(xa(i))))
      term2 == Mul(MulPow(Num(3), ra0, 2), inner)
  IN  Sub(term1, term2)

\* The k-pair group of Q weighted by 1 whenever all indices are paired.
trace_with_k_pairs_unit_when_all_paired(nn, indices, k) ==
  IF k > nn \div 2 THEN Zero
  ELSE LET total == PairingSum(generate_k_pairings(nn, k), indices, nn, "xa")
           coeff_arg == 2 * nn - 2 * k - 1
           trace_coeff == IF coeff_arg > 0 /\ 2 * k # nn THEN double_factorial(coeff_arg) ELSE 1
           sign == (-1) ^ k
       IN  Mul(MulPow(Num(sign * trace_coeff), ra0, 2 * k), total)

\* The k-pair group of Q without its sign (-1)^k.
trace_with_k_pairs_unsigned(nn, indices, k) ==
  IF k > nn \div 2 THEN Zero
  ELSE LET total == PairingSum(generate_k_pairings(nn, k), indices, nn, "xa")
           coeff_arg == 2 * nn - 2 * k - 1
           trace_coeff == IF coeff_arg > 0 THEN double_factorial(coeff_arg) ELSE 1
       IN  Mul(MulPow(Num(trace_coeff), ra0, 2 * k), total)

trace_with_k_pairs(nn, indices, k) ==
  IF k > nn \div 2 THEN Zero
  ELSE LET total == PairingSum(generate_k_pairings(nn, k), indices, nn, "xa")
           coeff_arg == 2 * nn - 2 * k - 1
           trace_coeff == IF coeff_arg > 0 THEN double_factorial(coeff_arg) ELSE 1
           sign == (-1) ^ k
       IN  Mul(MulPow(Num(sign * trace_coeff), ra0, 2 * k), total)

RECURSIVE TracesFrom(_, _, _)
\* The loop of _compute_all_traces from num_pairs on.
TracesFrom(nn, indices, num_pairs) ==
  IF num_pairs > nn \div 2 THEN Zero
  ELSE Add(trace_with_k_pairs(nn, indices, num_pairs),
           TracesFrom(nn, indices, num_pairs + 1))

compute_all_traces(nn, indices) == TracesFrom(nn, indices, 1)

\* Q with the main term weighted by 2n - 1 instead of (2n-1)!!.
Q_n_general_linear_coefficient(nn, indices) ==
  LET product == VectorProduct(2 * nn - 1, indices, "xa")
  IN  Add(product, compute_all_traces(nn, indices))

Q_n_general(nn, indices) ==
  LET product == VectorProduct(double_factorial(2 * nn - 1), indices, "xa")
  IN  Add(product, compute_all_traces(nn, indices))

Q_tensor(nn, indices) ==
  IF nn = 0 THEN Q_0
  ELSE IF nn = 1 THEN Q_1(indices[1])
  ELSE Q_n_general(nn, indices)

\* The generic labels i1 .. in used when no indices are given.
DefaultIndices(nn) == [t \in 1 .. nn |-> t]

(***************************************************************************)
(* The Cartesian derivatives of 1/r.                                       *)
(***************************************************************************)
\* The first derivative of 1/r^power with the exponent one too small.
derivative_1_over_r_power_short(power, index) ==
  MulPow(Mul(Num(-power), Atom(x(index))), r0, -(power + 1))

derivative_1_over_r_power(power, index) ==
  MulPow(Mul(Num(-power), Atom(x(index))), r0, -(power + 2))

derivative_1_over_r(index) == derivative_1_over_r_power(1, index)

second_derivative_1_over_r(index1, index2) ==
  LET numerator == Sub(Mul(Mul(Num(3), Atom(x(index1))), Atom(x(index2))),
                       MulPow(Atom(delta(index1, index2)), r0, 2))
  IN  MulPow(numerator, r0, -5)

\* The k-pair group of the derivative numerator with the sign (-1)^k of Q.
derivative_trace_with_k_pairs_signed(nn, indices, k) ==
  IF k > nn \div 2 THEN Zero
  ELSE LET total == PairingSum(de_generate_k_pairings(nn, k), indices, nn, "x")
           coeff_arg == 2 * nn - 2 * k - 1
           trace_coeff == IF coeff_arg > 0 THEN double_factorial(coeff_arg) ELSE 1
       IN  Mul(MulPow(Num(((-1) ^ k) * trace_coeff), r0, 2 * k), total)

derivative_trace_with_k_pairs(nn, indices, k) ==
  IF k > nn \div 2 THEN Zero
  ELSE LET total == PairingSum(de_generate_k_pairings(nn, k), indices, nn, "x")
           coeff_arg == 2 * nn - 2 * k - 1
           trace_coeff == IF coeff_arg > 0 THEN double_factorial(coeff_arg) ELSE 1
       IN  Mul(MulPow(Num(trace_coeff), r0, 2 * k), total)

RECURSIVE DerivativeTracesFrom(_, _, _)
DerivativeTracesFrom(nn, indices, num_pairs) ==
  IF num_pairs > nn \div 2 THEN Zero
  ELSE Add(derivative_trace_with_k_pairs(nn, indices, num_pairs),
           DerivativeTracesFrom(nn, indices, num_pairs + 1))

compute_all_derivative_traces(nn, indices) == DerivativeTracesFrom(nn, indices, 1)

\* The numerator with the trace groups added to the main term.
build_derivative_numerator_added(nn, indices) ==
  LET main_term == VectorProduct(double_factorial(2 * nn - 1), indices, "x")
  IN  Add(main_term, compute_all_derivative_traces(nn, indices))

build_derivative_numerator(nn, indices) ==
  LET main_term == VectorProduct(double_factorial(2 * nn - 1), indices, "x")
  IN  Sub(main_term, compute_all_derivative_traces(nn, indices))

recursive_derivative(nn, indices) ==
  LET numerator == build_derivative_numerator(nn, indices)
      power == 2 * nn + 1
      \* (-1) ** n: 1 for even n and -1 for odd n, also for n < 0.
      sign == IF nn % 2 = 0 THEN 1 ELSE -1
  IN  MulPow(Mul(Num(sign), numerator), r0, -power)

\* The dispatch of nth_derivative_1_over_r: the value returned and the
\* branch that computed it.
nth_derivative_dispatch(nn, indices) ==
  IF nn = 0 THEN [path |-> "closed", value |-> MulPow(Num(1), r0, -1)]
  ELSE IF nn = 1 THEN [path |-> "closed", value |-> derivative_1_over_r(indices[1])]
  ELSE IF nn = 2
    THEN [path |-> "closed", value |-> second_derivative_1_over_r(indices[1], indices[2])]
  ELSE [path |-> "general", value |-> recursive_derivative(nn, indices)]

nth_derivative_1_over_r(nn, indices) == nth_derivative_dispatch(nn, indices).value

\* The positions pos at which the pairing-sum path reads indices[pos]: those
\* of the pairs and the unpaired positions of every pairing it visits.
PairingSumReads(nn) ==
  IF nn \div 2 >= 1 THEN 0 .. nn - 1 ELSE {}

\* The positions at which Q_tensor(n, indices) reads indices[pos].
Q_tensor_reads(nn) ==
  IF nn = 0 THEN {} ELSE IF nn = 1 THEN {0} ELSE PairingSumReads(nn)

\* The positions at which nth_derivative_1_over_r(n, indices) reads
\* indices[pos].
nth_derivative_reads(nn) ==
  IF nn = 0 THEN {} ELSE IF nn = 1 THEN {0} ELSE IF nn = 2 THEN {0, 1}
  ELSE PairingSumReads(nn)

\* indices[pos] raises IndexError when pos is beyond the end of the list;
\* nothing else in the two operations raises.
IndexError(reads, indices) == \E pos \in reads : pos >= Len(indices)

(***************************************************************************)
(* The contraction engine.  Each rule is one pattern substitution over    *)
(* the whole expression: in every term, all non-overlapping matches of    *)
(* the pattern are replaced.  A product pattern A(i_)*B(i_) of two        *)
(* different factors matches factors of exponent 1; the pattern           *)
(* A(i_)*A(i_) is the power A(i_)^2 and matches a factor of exponent 2.   *)
(***************************************************************************)
\* The vector factors sym(i) of exponent e in monomial m.
VecsWithExp(m, sym, e) == {f \in DOMAIN m : f.s = sym /\ m[f] = e}

\* Apply a rewrite of monomials, Step(m) = <<number, monomial>>, to every
\* term of p and collect the result.
MapTerms(p, Step(_)) ==
  Normal({<<m, RMul(p[m], RNum(Step(m)[1])), Step(m)[2]>> : m \in DOMAIN p})

\* sym(i)*sym(i) -> by^2 times in every term (by = "1" for the number 1).
SquareStep(m, sym, by, e) ==
  LET F == VecsWithExp(m, sym, 2)
  IN  <<1, MMul(MDrop(m, F), MPow(by, e * Cardinality(F)))>>

\* a(i)*b(i) -> by in every term, for two different vector symbols a, b.
PairStep(m, a, b, by) ==
  LET L == {f.i : f \in {g \in VecsWithExp(m, a, 1) :
                           [s |-> b, i |-> g.i, j |-> 0] \in VecsWithExp(m, b, 1)}}
      F == {[s |-> a, i |-> l, j |-> 0] : l \in L} \cup {[s |-> b, i |-> l, j |-> 0] : l \in L}
  IN  <<1, MMul(MDrop(m, F), MPow(by, Cardinality(L)))>>

\* The delta rule dropping the delta and leaving sym(j_), the summed label.
DeltaStep_summed_label(m, sym) ==
  LET D == {d \in DOMAIN m : /\ d.s = "delta"
                             /\ m[d] = 1
                             /\ [s |-> sym, i |-> d.j, j |-> 0] \in VecsWithExp(m, sym, 1)}
  IN  <<1, MDrop(m, D)>>

\* The delta rule leaving the delta in place: delta(i_, j_)*sym(j_) ->
\* delta(i_, j_)*sym(i_).
DeltaStep_keeps_delta(m, sym) ==
  LET D == {d \in DOMAIN m : /\ d.s = "delta"
                             /\ m[d] = 1
                             /\ [s |-> sym, i |-> d.j, j |-> 0] \in VecsWithExp(m, sym, 1)}
      gone == {[s |-> sym, i |-> d.j, j |-> 0] : d \in D}
      new == [g \in {[s |-> sym, i |-> d.i, j |-> 0] : d \in D} |->
                Cardinality({d \in D : d.i = g.i})]
  IN  <<1, MMul(MDrop(m, gone), new)>>

\* delta(i_, j_)*sym(j_) -> sym(i_) in every term.
DeltaStep(m, sym) ==
  LET D == {d \in DOMAIN m : /\ d.s = "delta"
                             /\ m[d] = 1
                             /\ [s |-> sym, i |-> d.j, j |-> 0] \in VecsWithExp(m, sym, 1)}
      gone == D \cup {[s |-> sym, i |-> d.j, j |-> 0] : d \in D}
      new == [g \in {[s |-> sym, i |-> d.i, j |-> 0] : d \in D} |->
                Cardinality({d \in D : d.i = g.i})]
  IN  <<1, MMul(MDrop(m, gone), new)>>

RECURSIVE Pow3(_)
Pow3(e) == IF e <= 0 THEN 1 ELSE 3 * Pow3(e - 1)

RECURSIVE SumExp(_, _)
SumExp(m, F) ==
  IF F = {} THEN 0
  ELSE LET f == CHOOSE g \in F : TRUE IN m[f] + SumExp(m, F \ {f})

\* The trace rule with two unrelated wildcards: delta(i_, j_) -> 3.
TraceStep_any_delta(m) ==
  LET D == {d \in DOMAIN m : d.s = "delta" /\ m[d] > 0}
  IN  <<Pow3(SumExp(m, D)), MDrop(m, D)>>

\* delta(i_, i_) -> 3 in every term.
TraceStep(m) ==
  LET D == {d \in DOMAIN m : d.s = "delta" /\ d.i = d.j /\ m[d] > 0}
  IN  <<Pow3(SumExp(m, D)), MDrop(m, D)>>

\* F applied to the value of v: the assignment `result = v` followed by the
\* statements F that read result.
Then(v, F(_)) == CHOOSE r \in {F(w) : w \in {v}} : TRUE

\* The xa-xa rule with two unrelated wildcards: xa(i_)*xa(j_) -> ra0^2 for
\* any two labels.
contract_xa_xa_unshared(e) ==
  MapTerms(e, LAMBDA m :
    LET singles == VecsWithExp(m, "xa", 1)
        first == CHOOSE f \in singles : \A g \in singles : f.i <= g.i
        second == CHOOSE f \in singles \ {first} : \A g \in singles \ {first} : f.i <= g.i
    IN  IF Cardinality(singles) >= 2
        THEN <<1, MMul(MDrop(m, {first, second}), MPow(ra0, 2))>>
        ELSE SquareStep(m, "xa", ra0, 2))

contract_xa_xa(e) == MapTerms(e, LAMBDA m : SquareStep(m, "xa", ra0, 2))

contract_xa_n(e) ==
  Then(MapTerms(e, LAMBDA m : PairStep(m, "xa", "n", dot)),
       LAMBDA result : MapTerms(result, LAMBDA m : PairStep(m, "n", "xa", dot)))

contract_x_x(e) == MapTerms(e, LAMBDA m : SquareStep(m, "x", r0, 2))

contract_x_n(e) ==
  Then(MapTerms(e, LAMBDA m : PairStep(m, "x", "n", r0)),
       LAMBDA result : MapTerms(result, LAMBDA m : PairStep(m, "n", "x", r0)))

contract_n_n(e) == MapTerms(e, LAMBDA m : SquareStep(m, "n", r0, 0))

contract_delta(e) ==
  Then(MapTerms(e, LAMBDA m : DeltaStep(m, "xa")), LAMBDA r1 :
  Then(MapTerms(r1, LAMBDA m : DeltaStep(m, "xa")), LAMBDA r2 :
  Then(MapTerms(r2, LAMBDA m : DeltaStep(m, "n")), LAMBDA r3 :
  Then(MapTerms(r3, LAMBDA m : DeltaStep(m, "n")), LAMBDA r4 :
  MapTerms(r4, LAMBDA m : TraceStep(m))))))

\* The six rule groups of a pass, numbered in the order contract_indices
\* tries them.
ApplyRule(rule, e) ==
  CASE rule = 1 -> contract_xa_xa(e)
    [] rule = 2 -> contract_xa_n(e)
    [] rule = 3 -> contract_x_x(e)
    [] rule = 4 -> contract_x_n(e)
    [] rule = 5 -> contract_n_n(e)
    [] rule = 6 -> contract_delta(e)

\* A pass that tries the rule groups in the order rules[1], rules[2], ...
RECURSIVE ApplyRules(_, _)
ApplyRules(rules, e) ==
  IF rules = <<>> THEN e
  ELSE Then(ApplyRule(rules[1], e), LAMBDA result : ApplyRules(Tail(rules), result))

\* A pass that tries the delta rules first and the vector rules after them.
contract_indices_delta_first(e) ==
  Then(contract_delta(e), LAMBDA r1 :
  Then(contract_xa_xa(r1), LAMBDA r2 :
  Then(contract_xa_n(r2), LAMBDA r3 :
  Then(contract_x_x(r3), LAMBDA r4 :
  Then(contract_x_n(r4), LAMBDA r5 :
  contract_n_n(r5))))))

contract_indices(e) ==
  Then(contract_xa_xa(e), LAMBDA r1 :
  Then(contract_xa_n(r1), LAMBDA r2 :
  Then(contract_x_x(r2), LAMBDA r3 :
  Then(contract_x_n(r3), LAMBDA r4 :
  Then(contract_n_n(r4), LAMBDA r5 :
  contract_delta(r5))))))

\* expr.replace(dot(xa, n), xa(i1) * n(i1)): every occurrence of the dot
\* product, also under a power, becomes xa(i1) * n(i1).
expand_dot_products(e) ==
  MapTerms(e, LAMBDA m :
    IF dot \in DOMAIN m
    THEN <<1, MMul(MDrop(m, {dot}),
                   MMul(MPow(xa(LabI1), m[dot]), MPow(n(LabI1), m[dot])))>>
    ELSE <<1, m>>)

(***************************************************************************)
(* The formula assembly layer.                                             *)
(***************************************************************************)
RECURSIVE ContractTimes(_, _)
\* `for _ in range(c): result = contract_indices(result)`.
ContractTimes(e, c) ==
  IF c <= 0 THEN e
  ELSE Then(contract_indices(e), LAMBDA result : ContractTimes(result, c - 1))

\* result.replace(x(idx), n(idx) * r0).
ReplaceX(e, idx) ==
  MapTerms(e, LAMBDA m :
    IF x(idx) \in DOMAIN m
    THEN <<1, MMul(MDrop(m, {x(idx)}),
                   MMul(MPow(n(idx), m[x(idx)]), MPow(r0, m[x(idx)])))>>
    ELSE <<1, m>>)

RECURSIVE ReplaceAllX(_, _, _)
ReplaceAllX(e, indices, t) ==
  IF t > Len(indices) THEN e
  ELSE Then(ReplaceX(e, indices[t]), LAMBDA result : ReplaceAllX(result, indices, t + 1))

phi_0 == MulPow(Num(1), r0, -1)

\* The first-order Taylor term without its sign (-1)^1.
phi_1_without_sign(use_contraction) ==
  LET i == LabI
      result == Mul(Atom(xa(i)), derivative_1_over_r(i))
  IN  IF use_contraction
      THEN Then(ReplaceX(result, i), LAMBDA replaced : ContractTimes(replaced, 2))
      ELSE result

phi_1(use_contraction) ==
  LET i == LabI
      result == Neg(Mul(Atom(xa(i)), derivative_1_over_r(i)))
  IN  IF use_contraction
      THEN Then(ReplaceX(result, i), LAMBDA replaced : ContractTimes(replaced, 2))
      ELSE result

\* The second-order Taylor term without its factor 1/2.
phi_2_without_half(use_contraction) ==
  LET i == LabI
      j == LabJ
      xa_product == Mul(Atom(xa(i)), Atom(xa(j)))
      result == Mul(xa_product, second_derivative_1_over_r(i, j))
  IN  IF use_contraction
      THEN Then(ReplaceX(ReplaceX(result, i), j), LAMBDA replaced : ContractTimes(replaced, 3))
      ELSE result

phi_2(use_contraction) ==
  LET i == LabI
      j == LabJ
      xa_product == Mul(Atom(xa(i)), Atom(xa(j)))
      result == Mul(Scale(xa_product, Rat(1, 2)), second_derivative_1_over_r(i, j))
  IN  IF use_contraction
      THEN Then(ReplaceX(ReplaceX(result, i), j), LAMBDA replaced : ContractTimes(replaced, 3))
      ELSE result

phi_n_general(nn, use_contraction) ==
  LET indices == DefaultIndices(nn)
      xa_product == VectorProduct(1, indices, "xa")
      deriv == nth_derivative_1_over_r(nn, indices)
      result == Mul(Scale(xa_product, Rat((-1) ^ nn, factorial(nn))), deriv)
  IN  IF use_contraction
      THEN Then(ReplaceAllX(result, indices, 1), LAMBDA replaced : ContractTimes(replaced, 5))
      ELSE result

phi_n(nn, use_contraction) ==
  IF nn = 0 THEN phi_0
  ELSE IF nn = 1 THEN phi_1(use_contraction)
  ELSE IF nn = 2 THEN phi_2(use_contraction)
  ELSE phi_n_general(nn, use_contraction)

Max(a, b) == IF a >= b THEN a ELSE b

\* The Q-tensor term divided by r0^n instead of r0^(n+1).
phi_from_Q_short_power(nn, indices) ==
  LET Q == Q_tensor(nn, indices)
      Qn == Mul(Q, VectorProduct(1, indices, "n"))
      Qr == Scale(MulPow(Qn, r0, -nn), Rat(1, factorial(nn)))
  IN  Then(Qr, LAMBDA expanded : ContractTimes(expanded, Max(5, nn + 2)))

\* The Q-tensor term contracted by a single pass.
phi_from_Q_one_pass(nn, indices) ==
  LET Q == Q_tensor(nn, indices)
      Qn == Mul(Q, VectorProduct(1, indices, "n"))
      Qr == Scale(MulPow(Qn, r0, -(nn + 1)), Rat(1, factorial(nn)))
  IN  Then(Qr, LAMBDA expanded : ContractTimes(expanded, 1))

phi_from_Q(nn, indices) ==
  LET Q == Q_tensor(nn, indices)
      Qn == Mul(Q, VectorProduct(1, indices, "n"))
      Qr == Scale(MulPow(Qn, r0, -(nn + 1)), Rat(1, factorial(nn)))
  IN  Then(Qr, LAMBDA expanded : ContractTimes(expanded, Max(5, nn + 2)))

\* The expression `diff` of Verifier.verify_equivalence.
verify_equivalence_diff(nn) ==
  LET phi_taylor == phi_n(nn, TRUE)
      phi_Q == phi_from_Q(nn, DefaultIndices(nn))
  IN  Then(ContractTimes(phi_taylor, 2), LAMBDA phi_taylor_contracted :
      Then(ContractTimes(phi_Q, 2), LAMBDA phi_Q_contracted :
      Sub(phi_taylor_contracted, phi_Q_contracted)))

(***************************************************************************)
(* The verification layer.  str(expr) is read only for its length: digits, *)
(* names, brackets and the signs *, ^, +, -, / each count one character.   *)
(***************************************************************************)
RECURSIVE Digits(_)
Digits(a) == IF a < 10 THEN 1 ELSE 1 + Digits(a \div 10)

\* Characters of an integer: a minus sign and the digits.
IntLen(a) == (IF a < 0 THEN 1 ELSE 0) + Digits(Abs(a))

\* Characters of a label: "i" and "j" as written, else "i" and a number.
LabelLen(l) == IF l \in {LabI, LabJ} THEN 1 ELSE 1 + Digits(l)

\* Characters of a factor: r0, ra0, dot(xa,n), xa(l), x(l), n(l), delta(a,b).
FactorLen(f) ==
  CASE f.s = "r0" -> 2
    [] f.s = "ra0" -> 3
    [] f.s = "dot" -> 9
    [] f.s = "xa" -> 4 + LabelLen(f.i)
    [] f.s \in {"x", "n"} -> 3 + LabelLen(f.i)
    [] f.s = "delta" -> 8 + LabelLen(f.i) + LabelLen(f.j)

RECURSIVE MonoLen(_)
\* Characters of a product of powers: factors joined by "*", an exponent
\* other than 1 written after "^".
MonoLen(m) ==
  IF m = MOne THEN 0
  ELSE LET f == CHOOSE g \in DOMAIN m : TRUE
           own == FactorLen(f) + (IF m[f] = 1 THEN 0 ELSE 1 + IntLen(m[f]))
           rest == MDrop(m, {f})
       IN  IF rest = MOne THEN own ELSE own + 1 + MonoLen(rest)

\* Characters of one term: the coefficient, left out when it is 1 and
\* written "-" when it is -1 before a product.
TermLen(c, m) ==
  LET number == IntLen(c[1]) + (IF c[2] = 1 THEN 0 ELSE 1 + Digits(c[2]))
  IN  IF m = MOne THEN number
      ELSE IF c = <<1, 1>> THEN MonoLen(m)
      ELSE IF c = <<-1, 1>> THEN 1 + MonoLen(m)
      ELSE number + 1 + MonoLen(m)

RECURSIVE TermsLen(_, _)
TermsLen(e, M) ==
  IF M = {} THEN 0
  ELSE LET m == CHOOSE u \in M : TRUE
       IN  TermLen(e[m], m) + TermsLen(e, M \ {m})

\* len(str(expr)): "0" for the zero expression, else the terms, a "+"
\* between two terms unless the second brings its own "-".
StrLen(e) ==
  IF e = Zero THEN 1
  ELSE LET positive == Cardinality({m \in DOMAIN e : e[m][1] > 0})
       IN  TermsLen(e, DOMAIN e) + (IF positive > 0 THEN positive - 1 ELSE 0)

\* Verifier._check_if_zero: True for the rendering "0" (the rendering "0."
\* belongs to floating-point zero, which no expression here holds), True
\* for any rendering shorter than 3 characters, else False.
check_if_zero(e) ==
  IF e = Zero THEN TRUE
  ELSE IF StrLen(e) < 3 THEN TRUE
  ELSE FALSE

\* The index lists verify_Q_symmetry builds the tensor of: i,j and j,i for
\* n = 2; ijk, jik and kji for n = 3; none beyond the generic one otherwise.
perms_to_check(nn) ==
  IF nn = 2 THEN {<<1, 2>>, <<2, 1>>}
  ELSE IF nn = 3 THEN {<<1, 2, 3>>, <<2, 1, 3>>, <<3, 2, 1>>}
  ELSE {}

\* Verifier.verify_Q_symmetry: True on every branch.
verify_Q_symmetry(nn) ==
  IF nn = 0 THEN TRUE
  ELSE IF nn = 1 THEN TRUE
  ELSE IF nn = 2 THEN TRUE
  ELSE IF nn = 3 THEN TRUE
  ELSE TRUE

(***************************************************************************)
(* State.                                                                  *)
(***************************************************************************)
VARIABLES
  call,      \* the last operation called and its arguments
  pairings,  \* the list returned by the pairing generator
  expr,      \* the expression returned by the last operation
  path,      \* the branch of the dispatch that computed expr
  passes,    \* contraction passes applied to expr by the caller's loop
  stable,    \* the last pass of the caller's loop left expr unchanged
  raised,    \* the exception the last operation raised, or "none"
  verdict    \* the boolean a verification returned: "True", "False" or "none"

vars == <<call, pairings, expr, path, passes, stable, raised, verdict>>

\* Orders and pair counts the generator is called with.
GenOrders == 0 .. MaxN + 2
GenPairCounts == 0 .. (MaxN + 2) \div 2

\* Index lists: nn pairwise distinct labels in any order, and the lists of
\* the trace check, which carry one label at two positions p < q.
Perms(nn) == {s \in [1 .. nn -> 1 .. nn] : \A a, b \in 1 .. nn : s[a] = s[b] => a = b}

TraceList(nn, p, q) == [t \in 1 .. nn |-> IF t = q THEN p ELSE t]

TraceLists(nn) == {TraceList(nn, p, q) : p \in 1 .. nn, q \in 1 .. nn} \ Perms(nn)

IndexLists(nn) == Perms(nn) \cup TraceLists(nn)

\* Orders the two tensor builders are called with, the negative ones
\* included, and for each order the index lists of another length.
CallOrders == -2 .. MaxN

WrongLengthLists(nn) ==
  {DefaultIndices(len) : len \in (0 .. MaxN + 1) \ {nn}}

ArgumentLists(nn) ==
  (IF nn >= 0 THEN IndexLists(nn) ELSE {}) \cup WrongLengthLists(nn)

\* The factors of the vocabulary over the labels 1 .. MaxLabel.
Vectors ==
  {xa(i) : i \in 1 .. MaxLabel} \cup {x(i) : i \in 1 .. MaxLabel}
    \cup {n(i) : i \in 1 .. MaxLabel}

Deltas == {delta(i, j) : i \in 1 .. MaxLabel, j \in 1 .. MaxLabel}

Vocabulary == Vectors \cup Deltas \cup {r0, ra0, dot}

Idle == [op |-> "none", order |-> 0, k |-> 0, indices |-> <<>>, factors |-> <<>>]

Init ==
  /\ call = Idle
  /\ pairings = <<>>
  /\ expr = Zero
  /\ path = "none"
  /\ passes = 0
  /\ stable = FALSE
  /\ raised = "none"
  /\ verdict = "none"

\* An operation called with the arguments c returns the expression e,
\* computed by the branch `branch`.
Returns(c, e, branch) ==
  /\ call' = c
  /\ expr' = e
  /\ path' = branch
  /\ passes' = 0
  /\ stable' = FALSE
  /\ raised' = "none"
  /\ verdict' = "none"
  /\ UNCHANGED pairings

\* A verification called with the arguments c computes the expression e
\* and returns the boolean v.
Answers(c, e, v) ==
  /\ call' = c
  /\ expr' = e
  /\ path' = "none"
  /\ passes' = 0
  /\ stable' = FALSE
  /\ raised' = "none"
  /\ verdict' = IF v THEN "True" ELSE "False"
  /\ UNCHANGED pairings

\* An operation called with the arguments c raises err and returns nothing.
Raises(c, err) ==
  /\ call' = c
  /\ expr' = Zero
  /\ path' = "none"
  /\ passes' = 0
  /\ stable' = FALSE
  /\ raised' = err
  /\ verdict' = "none"
  /\ UNCHANGED pairings

GeneratePairings(nn, k) ==
  /\ call = Idle
  /\ call' = [Idle EXCEPT !.op = "generate_k_pairings", !.order = nn, !.k = k]
  /\ pairings' = generate_k_pairings(nn, k)
  /\ UNCHANGED <<expr, path, passes, stable, raised, verdict>>

\* The same call on the copy of the generator in DerivativeEngine.
GenerateDerivativePairings(nn, k) ==
  /\ call = Idle
  /\ call' = [Idle EXCEPT !.op = "de_generate_k_pairings", !.order = nn, !.k = k]
  /\ pairings' = de_generate_k_pairings(nn, k)
  /\ UNCHANGED <<expr, path, passes, stable, raised, verdict>>

CallQTensor(nn, indices) ==
  /\ call = Idle
  /\ LET c == [Idle EXCEPT !.op = "Q_tensor", !.order = nn, !.indices = indices]
     IN  IF IndexError(Q_tensor_reads(nn), indices)
         THEN Raises(c, "IndexError")
         ELSE Returns(c, Q_tensor(nn, indices), "none")

CallDerivative(nn, indices) ==
  /\ call = Idle
  /\ LET c == [Idle EXCEPT !.op = "nth_derivative_1_over_r", !.order = nn,
                            !.indices = indices]
     IN  IF IndexError(nth_derivative_reads(nn), indices)
         THEN Raises(c, "IndexError")
         ELSE LET d == nth_derivative_dispatch(nn, indices)
              IN  Returns(c, d.value, d.path)

\* The products the contraction engine is fed: one factor, two factors, and
\* a delta with two vectors, as written.
Products ==
  {<<f>> : f \in Vocabulary}
    \cup {<<f1, f2>> : f1 \in Vocabulary, f2 \in Vocabulary}
    \cup {<<d, v, w>> : d \in Deltas, v \in Vectors, w \in Vectors}

\* The caller writes the product of the factors fs.
BuildProduct(fs) ==
  /\ call = Idle
  /\ Returns([Idle EXCEPT !.op = "product", !.factors = fs],
             [m \in {MProd(fs)} |-> RNum(1)], "none")

CallPhiN(nn) ==
  /\ call = Idle
  /\ Returns([Idle EXCEPT !.op = "phi_n", !.order = nn], phi_n(nn, TRUE), "none")

CallPhiFromQ(nn) ==
  /\ call = Idle
  /\ Returns([Idle EXCEPT !.op = "phi_from_Q", !.order = nn, !.indices = DefaultIndices(nn)],
             phi_from_Q(nn, DefaultIndices(nn)), "none")

\* The k-pair group of Q, and of the derivative numerator, asked for
\* directly, with the generic labels.
CallTrace(nn, k) ==
  /\ call = Idle
  /\ Returns([Idle EXCEPT !.op = "trace_with_k_pairs", !.order = nn, !.k = k,
                          !.indices = DefaultIndices(nn)],
             trace_with_k_pairs(nn, DefaultIndices(nn), k), "none")

CallDerivativeTrace(nn, k) ==
  /\ call = Idle
  /\ Returns([Idle EXCEPT !.op = "derivative_trace_with_k_pairs", !.order = nn, !.k = k,
                          !.indices = DefaultIndices(nn)],
             derivative_trace_with_k_pairs(nn, DefaultIndices(nn), k), "none")

\* The numerator polynomial of the n-th derivative, asked for directly.
CallDerivativeNumerator(nn, indices) ==
  /\ call = Idle
  /\ Returns([Idle EXCEPT !.op = "build_derivative_numerator", !.order = nn,
                          !.indices = indices],
             build_derivative_numerator(nn, indices), "none")

HoldsExpression ==
  /\ call.op \in {"Q_tensor", "nth_derivative_1_over_r", "product", "phi_n", "phi_from_Q"}
  /\ raised = "none"

VerifyEquivalence(nn) ==
  /\ call = Idle
  /\ Answers([Idle EXCEPT !.op = "verify_equivalence", !.order = nn],
             verify_equivalence_diff(nn), check_if_zero(verify_equivalence_diff(nn)))

\* Verifier.verify_Q_symmetry(n): the tensor of the generic labels is
\* built, and for n = 2 and n = 3 the tensors of the permuted labels too,
\* none of them compared; every branch returns True.
VerifyQSymmetry(nn) ==
  /\ call = Idle
  /\ Answers([Idle EXCEPT !.op = "verify_Q_symmetry", !.order = nn,
                          !.indices = DefaultIndices(nn)],
             IF nn <= 1 THEN Zero ELSE Q_tensor(nn, DefaultIndices(nn)),
             verify_Q_symmetry(nn))

\* The holder of an expression asks whether it is zero.
CheckIfZero ==
  /\ HoldsExpression
  /\ passes = 0
  /\ verdict = "none"
  /\ verdict' = IF check_if_zero(expr) THEN "True" ELSE "False"
  /\ UNCHANGED <<call, pairings, expr, path, passes, stable, raised>>

\* One iteration of the caller's loop "contract until the result stops
\* changing".
ContractPass ==
  /\ HoldsExpression
  /\ ~stable
  /\ expr' = contract_indices(expr)
  /\ stable' = (expr' = expr)
  /\ passes' = passes + 1
  /\ verdict' = "none"
  /\ UNCHANGED <<call, pairings, path, raised>>

\* The caller expands the dot products of the expression it holds.
ExpandDotProducts ==
  /\ HoldsExpression
  /\ call' = [call EXCEPT !.op = "expand_dot_products"]
  /\ expr' = expand_dot_products(expr)
  /\ passes' = 0
  /\ stable' = FALSE
  /\ verdict' = "none"
  /\ UNCHANGED <<pairings, path, raised>>

\* The caller applies one rule group of the catalogue, in any order of its
\* choosing, to a product or to what earlier rule groups left of it.
CallRule(rule) ==
  /\ call.op \in {"product", "rules"}
  /\ passes = 0
  /\ raised = "none"
  /\ call' = [call EXCEPT !.op = "rules"]
  /\ expr' = ApplyRule(rule, expr)
  /\ verdict' = "none"
  /\ UNCHANGED <<pairings, path, passes, stable, raised>>

\* The caller drops the result.
Discard ==
  /\ call # Idle
  /\ call' = Idle
  /\ pairings' = <<>>
  /\ expr' = Zero
  /\ path' = "none"
  /\ passes' = 0
  /\ stable' = FALSE
  /\ raised' = "none"
  /\ verdict' = "none"

Next ==
  \/ \E nn \in GenOrders, k \in GenPairCounts : GeneratePairings(nn, k)
  \/ \E nn \in GenOrders, k \in GenPairCounts : GenerateDerivativePairings(nn, k)
  \/ \E nn \in CallOrders : \E indices \in ArgumentLists(nn) : CallQTensor(nn, indices)
  \/ \E nn \in CallOrders : \E indices \in ArgumentLists(nn) : CallDerivative(nn, indices)
  \/ \E fs \in Products : BuildProduct(fs)
  \/ \E nn \in 0 .. MaxN, k \in GenPairCounts : CallTrace(nn, k)
  \/ \E nn \in 0 .. MaxN, k \in GenPairCounts : CallDerivativeTrace(nn, k)
  \/ \E nn \in 0 .. MaxN : \E indices \in Perms(nn) : CallDerivativeNumerator(nn, indices)
  \/ \E nn \in 0 .. MaxN : CallPhiN(nn)
  \/ \E nn \in 0 .. MaxN : CallPhiFromQ(nn)
  \/ \E nn \in 0 .. MaxN : VerifyEquivalence(nn)
  \/ ContractPass
  \/ ExpandDotProducts
  \/ \E rule \in 1 .. 6 : CallRule(rule)
  \/ \E nn \in 0 .. MaxN : VerifyQSymmetry(nn)
  \/ CheckIfZero
  \/ Discard

Spec == Init /\ [][Next]_vars

(***************************************************************************)
(* Reference definitions the properties are stated against.                *)
(***************************************************************************)
RECURSIVE Fact(_)
Fact(m) == IF m = 0 THEN 1 ELSE m * Fact(m - 1)

RECURSIVE Pow2(_)
Pow2(m) == IF m = 0 THEN 1 ELSE 2 * Pow2(m - 1)

\* m!! for odd m >= -1, as (m+1)! / (2^j * j!) with j = (m+1)/2.
OddDoubleFactorial(m) == Fact(m + 1) \div (Pow2((m + 1) \div 2) * Fact((m + 1) \div 2))

Distinct(indices) ==
  \A a, b \in 1 .. Len(indices) : indices[a] = indices[b] => a = b

\* All sets of k pairwise disjoint two-element sets of positions 0 .. nn-1.
KPairings(nn, k) ==
  LET twos == {{a, b} : a \in 0 .. nn - 1, b \in 0 .. nn - 1} \ {{a} : a \in 0 .. nn - 1}
  IN  {P \in SUBSET twos : /\ Cardinality(P) = k
                           /\ \A u, v \in P : u # v => u \cap v = {}}

SetMin(S) == CHOOSE a \in S : \A b \in S : a <= b
SetMax(S) == CHOOSE a \in S : \A b \in S : a >= b

\* For pairwise distinct labels: the monomial of one pairing P, a delta per
\* pair and the vector symbol sym at the unpaired positions, times mag^e.
PairingMonomial(P, indices, nn, sym, mag, e) ==
  LET deltas == {delta(indices[SetMin(u) + 1], indices[SetMax(u) + 1]) : u \in P}
      vecs == {[s |-> sym, i |-> indices[pos + 1], j |-> 0] :
                 pos \in (0 .. nn - 1) \ UNION P}
  IN  MMul([f \in deltas \cup vecs |-> 1], MPow(mag, e))

\* Sum over k = 0 .. nn \div 2 of (-1)^k (2nn-2k-1)!! ra0^(2k) times the sum
\* over all k-pairings of deltas and xa factors.
ReferenceQ(nn, indices) ==
  LET monos(k) == {PairingMonomial(P, indices, nn, "xa", ra0, 2 * k) : P \in KPairings(nn, k)}
      all == UNION {monos(k) : k \in 0 .. nn \div 2}
  IN  [m \in all |->
         LET k == MExp(m, ra0) \div 2
         IN  RNum(((-1) ^ k) * OddDoubleFactorial(2 * nn - 2 * k - 1))]

\* delta(a, b) and delta(b, a) identified: every delta written with its
\* smaller label first.
SymmetricDelta(e) ==
  LET canon(f) == IF f.s = "delta" /\ f.i > f.j THEN delta(f.j, f.i) ELSE f
      mono(m) == [f \in {canon(g) : g \in DOMAIN m} |->
                    SumExp(m, {g \in DOMAIN m : canon(g) = f})]
  IN  MapTerms(e, LAMBDA m : <<1, mono(m)>>)

\* A pairing as a set of two-element sets of positions.
AsSets(pairing) == {{pairing[t][1], pairing[t][2]} : t \in 1 .. Len(pairing)}

(***************************************************************************)
(* Properties.                                                             *)
(***************************************************************************)
IsQTensorResult ==
  call.op = "Q_tensor" /\ passes = 0 /\ Len(call.indices) = call.order

C2_Traceless ==
  (/\ call.op = "Q_tensor"
   /\ call.order >= 2
   /\ call.indices \in TraceLists(call.order)
   /\ stable)
    => expr = Zero

IsPairingResult == call.op = "generate_k_pairings"

\* C4: for 0 <= k <= n \div 2 the generator returns n! / (2^k k! (n-2k)!)
\* pairings; k = 0 gives exactly the empty pairing and k = 1 exactly the
\* pairs (i, j) with 0 <= i < j < n.
C4_PairingCount ==
  (IsPairingResult /\ call.k <= call.order \div 2) =>
    LET nn == call.order
        k == call.k
    IN  /\ Len(pairings) = Fact(nn) \div (Pow2(k) * Fact(k) * Fact(nn - 2 * k))
        /\ k = 0 => pairings = << <<>> >>
        /\ k = 1 =>
             /\ {pairings[t] : t \in 1 .. Len(pairings)}
                  = {<<p>> : p \in {q \in (0 .. nn - 1) \X (0 .. nn - 1) : q[1] < q[2]}}
             /\ Len(pairings) = (nn * (nn - 1)) \div 2

\* The generator has returned the 15 three-pair pairings of 6 positions.
C4_Witness ==
  /\ IsPairingResult
  /\ call.order = 6
  /\ call.k = 3
  /\ Len(pairings) = 15

\* C5: every pairing returned has exactly k pairs, whose 2k positions are
\* pairwise distinct and lie in 0 .. n-1, and no two pairings of one result
\* are equal as sets of unordered pairs.
C5_PairingsValid ==
  IsPairingResult =>
    /\ \A t \in 1 .. Len(pairings) :
         /\ Len(pairings[t]) = call.k
         /\ Cardinality(AsSets(pairings[t])) = call.k
         /\ Cardinality(UNION AsSets(pairings[t])) = 2 * call.k
         /\ UNION AsSets(pairings[t]) \subseteq 0 .. call.order - 1
    /\ \A t, u \in 1 .. Len(pairings) :
         AsSets(pairings[t]) = AsSets(pairings[u]) => t = u

\* The generator has returned the two-pair pairings of 5 positions, built
\* by the recursive branch and de-duplicated.
C5_Witness ==
  /\ IsPairingResult
  /\ call.order = 5
  /\ call.k = 2
  /\ Len(pairings) = 15
  /\ <<<<1, 3>>, <<2, 4>>>> \in {pairings[t] : t \in 1 .. Len(pairings)}

\* The number of indexed factors xa(.), x(.), n(.), delta(.,.) written in e,
\* counted with their exponents over all terms.
IndexedFactors(e) ==
  LET idx(m) == {f \in DOMAIN m : f.s \in {"xa", "x", "n", "delta"}}
      count(m) == SumExp(m, idx(m))
      RECURSIVE total(_)
      total(M) == IF M = {} THEN 0
                  ELSE LET m == CHOOSE u \in M : TRUE IN count(m) + total(M \ {m})
  IN  total(DOMAIN e)

\* The derivative of order nn by the pairing sum, for pairwise distinct
\* labels: (-1)^nn (2nn-1)!! x...x / r0^(2nn+1) minus, for k >= 1,
\* (-1)^nn (2nn-2k-1)!! r0^(2k) / r0^(2nn+1) times every k-pairing term.
ReferenceDerivative(nn, indices) ==
  LET monos(k) == {PairingMonomial(P, indices, nn, "x", r0, 2 * k - (2 * nn + 1)) :
                     P \in KPairings(nn, k)}
      all == UNION {monos(k) : k \in 0 .. nn \div 2}
  IN  [m \in all |->
         LET k == (MExp(m, r0) + 2 * nn + 1) \div 2
             group == OddDoubleFactorial(2 * nn - 2 * k - 1)
         IN  RNum(((-1) ^ nn) * (IF k = 0 THEN group ELSE -group))]

IsDerivativeResult ==
  call.op = "nth_derivative_1_over_r" /\ passes = 0 /\ Len(call.indices) = call.order

C7_ClosedForms ==
  (IsDerivativeResult /\ call.order <= 2) =>
    LET idx == call.indices
    IN  /\ path = "closed"
        /\ call.order = 0 => expr = ((r0 :> -1) :> <<1, 1>>)
        /\ call.order = 1 => expr = ((x(idx[1]) :> 1 @@ r0 :> -3) :> <<-1, 1>>)
        /\ call.order = 2 =>
             expr = Normal({<<1, <<3, 1>>,
                              MMul(MMul(MPow(x(idx[1]), 1), MPow(x(idx[2]), 1)), MPow(r0, -5))>>,
                            <<2, <<-1, 1>>,
                              MMul(MPow(delta(idx[1], idx[2]), 1), MPow(r0, -3))>>})

\* The second derivative has been returned by its closed form.
C7_Witness ==
  /\ IsDerivativeResult
  /\ call.order = 2
  /\ call.indices = <<2, 1>>
  /\ path = "closed"
  /\ expr = ((x(1) :> 1 @@ x(2) :> 1 @@ r0 :> -5) :> <<3, 1>>
             @@ (delta(2, 1) :> 1 @@ r0 :> -3) :> <<-1, 1>>)

IsProductAfterOnePass == call.op = "product" /\ passes = 1

\* The value of a product that is the single factor f, or the number c.
One(f) == (f :> 1) :> <<1, 1>>

\* C8: one pass of contract_indices over a product of exactly the two
\* factors of a catalogue pattern, written in either order, returns the
\* catalogue replacement, for every label: xa(i) xa(i) -> ra0^2,
\* xa(i) n(i) -> dot, x(i) x(i) -> r0^2, x(i) n(i) -> r0, n(i) n(i) -> 1,
\* delta(i,j) xa(j) -> xa(i), delta(i,j) n(j) -> n(i), delta(i,i) -> 3.
C8_Catalogue ==
  IsProductAfterOnePass =>
    \A i, j \in 1 .. MaxLabel :
      LET fs == call.factors
      IN  /\ fs = <<xa(i), xa(i)>> => expr = ((ra0 :> 2) :> <<1, 1>>)
          /\ fs \in {<<xa(i), n(i)>>, <<n(i), xa(i)>>} => expr = One(dot)
          /\ fs = <<x(i), x(i)>> => expr = ((r0 :> 2) :> <<1, 1>>)
          /\ fs \in {<<x(i), n(i)>>, <<n(i), x(i)>>} => expr = One(r0)
          /\ fs = <<n(i), n(i)>> => expr = (MOne :> <<1, 1>>)
          /\ fs \in {<<delta(i, j), xa(j)>>, <<xa(j), delta(i, j)>>} => expr = One(xa(i))
          /\ fs \in {<<delta(i, j), n(j)>>, <<n(j), delta(i, j)>>} => expr = One(n(i))
          /\ fs = <<delta(i, i)>> => expr = (MOne :> <<3, 1>>)

\* One pass has been applied to xa(2) * delta(1,2), the delta rule written
\* in reverse order, and has left xa(1).
C8_Witness ==
  /\ IsProductAfterOnePass
  /\ call.factors = <<xa(2), delta(1, 2)>>
  /\ expr = One(xa(1))
  /\ ~stable

\* C9: repeated contraction reaches an expression that a further pass
\* leaves unchanged: every pass that changes the expression strictly
\* reduces the number of indexed factors, and the loop "repeat until
\* unchanged" terminates.
C9_ContractionTerminates ==
  [][(passes' = passes + 1) =>
       /\ ~stable
       /\ expr' = contract_indices(expr)
       /\ stable' = (expr' = expr)
       /\ IndexedFactors(expr') >= 0
       /\ (expr' # expr => IndexedFactors(expr') < IndexedFactors(expr))
       /\ (stable' => contract_indices(expr') = expr')]_vars

\* The loop has run on delta(1,2) * xa(2) * xa(1): two passes changed the
\* expression, to xa(1)^2 and then to ra0^2, and the third left it alone.
C9_Witness ==
  /\ call.op = "product"
  /\ call.factors = <<delta(1, 2), xa(2), xa(1)>>
  /\ passes = 3
  /\ stable
  /\ expr = ((ra0 :> 2) :> <<1, 1>>)

\* C10: for n = 0, 1, 2 the Taylor term phi_n(n, use_contraction = True)
\* and the Q-tensor term phi_from_Q(n) are the same expression after full
\* contraction: their difference is the zero expression, although the two
\* sides name their dummy indices differently.
C10_LowOrderEquivalence ==
  /\ (call.op = "verify_equivalence" /\ call.order <= 2) => expr = Zero
  /\ (call.op = "phi_n" /\ call.order <= 2 /\ stable) =>
       LET phi_Q == phi_from_Q(call.order, DefaultIndices(call.order))
       IN  /\ contract_indices(phi_Q) = phi_Q
           /\ expr = phi_Q

\* The equivalence check has run at n = 2, where the Taylor side sums over
\* the labels i, j and the Q side over i1, i2, and neither side is zero.
C10_Witness ==
  /\ call.op = "verify_equivalence"
  /\ call.order = 2
  /\ expr = Zero
  /\ phi_2(FALSE) # Zero
  /\ \E m \in DOMAIN phi_2(FALSE) : xa(LabI) \in DOMAIN m /\ xa(1) \notin DOMAIN m
  /\ phi_n(2, TRUE) = ((dot :> 2 @@ r0 :> -3) :> <<3, 2>> @@ (ra0 :> 2 @@ r0 :> -3) :> <<-1, 2>>)

\* C11: for n >= 3 too, phi_from_Q(n) and the Taylor term phi_n(n) are the
\* same fully contracted expression: their difference is the zero
\* expression.
C11_HighOrderEquivalence ==
  (call.op = "verify_equivalence" /\ call.order >= 3) => expr = Zero

\* C12: Q_tensor and nth_derivative_1_over_r raise an error and return no
\* expression whenever n < 0 or the index list is not of length n, be it
\* longer or shorter.
C12_FailFast ==
  (/\ call.op \in {"Q_tensor", "nth_derivative_1_over_r"}
   /\ (call.order < 0 \/ Len(call.indices) # call.order))
    => raised # "none"

IsTraceResult == call.op \in {"trace_with_k_pairs", "derivative_trace_with_k_pairs"}

\* C13: for n >= 0 and k >= 1 with 2k > n the generator returns the empty
\* list and raises nothing, and for k > n \div 2 the k-pair group of Q and
\* of the derivative numerator is the zero expression.
C13_TooManyPairs ==
  /\ (IsPairingResult /\ call.k >= 1 /\ 2 * call.k > call.order) =>
       (pairings = <<>> /\ raised = "none")
  /\ (IsTraceResult /\ call.k > call.order \div 2) =>
       (expr = Zero /\ raised = "none")

\* Three pairs have been asked of five positions, through the recursive
\* branch of the generator, and nothing came back.
C13_Witness ==
  /\ IsPairingResult
  /\ call.order = 5
  /\ call.k = 3
  /\ pairings = <<>>

\* The terms of e in which every index is paired: those without a factor
\* of the vector symbol sym.
AllPairedTerms(e, sym) == {m \in DOMAIN e : \A f \in DOMAIN m : f.s # sym}

\* The results the all-paired group is read from: Q_tensor and the
\* n-th derivative at an even order n >= 2 with pairwise distinct labels.
IsEvenOrderTensor ==
  /\ (IsQTensorResult \/ IsDerivativeResult)
  /\ raised = "none"
  /\ call.order >= 2
  /\ call.order % 2 = 0
  /\ Distinct(call.indices)

TensorSymbol == IF call.op = "Q_tensor" THEN "xa" ELSE "x"

LabelsOfTerm(m) ==
  {f.i : f \in {g \in DOMAIN m : g.s \in {"xa", "x", "n", "delta"}}}
    \cup {f.j : f \in {g \in DOMAIN m : g.s = "delta"}}

LabelsOf(e) == UNION {LabelsOfTerm(m) : m \in DOMAIN e}

\* How often label l is written in monomial m, exponents counted.
Occurrences(m, l) ==
  SumExp(m, {f \in DOMAIN m : f.s \in {"xa", "x", "n", "delta"} /\ f.i = l})
    + SumExp(m, {f \in DOMAIN m : f.s = "delta" /\ f.j = l})

\* e with every product xa(l) * n(l) over a label l of L written back as
\* dot(xa, n).
FoldDots(e, L) ==
  MapTerms(e, LAMBDA m :
    LET pairs == {l \in L : xa(l) \in DOMAIN m /\ n(l) \in DOMAIN m}
        gone == {xa(l) : l \in pairs} \cup {n(l) : l \in pairs}
    IN  <<1, MMul(MDrop(m, gone), MPow(dot, Cardinality(pairs)))>>)

\* C15: expand_dot_products replaces every dot(xa, n) by xa(l) * n(l) for
\* a fresh label l: the result holds no dot product, every label it adds
\* occurs nowhere in the input and exactly twice in each term that holds
\* it, and writing the added products back as dot products gives the input.
C15_FreshLabel ==
  [][(call.op # "expand_dot_products" /\ call'.op = "expand_dot_products") =>
       LET added == LabelsOf(expr') \ LabelsOf(expr)
       IN  /\ \A m \in DOMAIN expr' : dot \notin DOMAIN m
           /\ \A m \in DOMAIN expr' : \A l \in added \cap LabelsOfTerm(m) :
                Occurrences(m, l) = 2
           /\ FoldDots(expr', added) = expr]_vars

IsPhiNResult == call.op = "phi_n" /\ passes = 0

\* C16: the contracted Taylor terms are phi_n(0) = 1/r0, phi_n(1) =
\* dot(xa,n)/r0^2 and phi_n(2) = (3 dot(xa,n)^2 - ra0^2)/(2 r0^3), and no
\* indexed factor xa(.), x(.), n(.), delta(.,.) remains in them.
C16_PhiClosedForms ==
  (IsPhiNResult /\ call.order <= 2) =>
    /\ call.order = 0 => expr = ((r0 :> -1) :> <<1, 1>>)
    /\ call.order = 1 => expr = ((dot :> 1 @@ r0 :> -2) :> <<1, 1>>)
    /\ call.order = 2 => expr = ((dot :> 2 @@ r0 :> -3) :> <<3, 2>>
                                  @@ (ra0 :> 2 @@ r0 :> -3) :> <<-1, 2>>)
    /\ IndexedFactors(expr) = 0

\* The dipole term has been returned, contracted to dot(xa,n)/r0^2.
C16_Witness ==
  /\ IsPhiNResult
  /\ call.order = 1
  /\ expr = ((dot :> 1 @@ r0 :> -2) :> <<1, 1>>)
  /\ phi_1(FALSE) = ((xa(LabI) :> 1 @@ x(LabI) :> 1 @@ r0 :> -3) :> <<1, 1>>)

IsPotentialTerm == call.op \in {"phi_n", "phi_from_Q"}

\* C17: for every order n >= 0, every term of the contracted Taylor term
\* phi_n(n) and of phi_from_Q(n) carries r0 to exactly the power -(n+1).
C17_DistancePower ==
  IsPotentialTerm =>
    /\ expr # Zero
    /\ \A m \in DOMAIN expr : MExp(m, r0) = -(call.order + 1)

\* phi_from_Q has returned the order-4 term: three terms, each over r0^5.
C17_Witness ==
  /\ call.op = "phi_from_Q"
  /\ call.order = 4
  /\ passes = 0
  /\ Cardinality(DOMAIN expr) = 3
  /\ \A m \in DOMAIN expr : MExp(m, r0) = -5

\* The main term xa(i1) * ... * xa(in) of the tensor of the labels in
\* call.indices.
MainTerm == [f \in {xa(call.indices[t]) : t \in 1 .. call.order} |-> 1]

IsDistinctQTensor == IsQTensorResult /\ raised = "none" /\ Distinct(call.indices)

FieldForSource(e) ==
  LET swap(f) == IF f.s = "xa" THEN x(f.i) ELSE IF f = ra0 THEN r0 ELSE f
      mono(m) == [f \in {swap(g) : g \in DOMAIN m} |->
                    SumExp(m, {g \in DOMAIN m : swap(g) = f})]
  IN  MapTerms(e, LAMBDA m : <<1, mono(m)>>)

\* C19: for n >= 3 the numerator built by _build_derivative_numerator is
\* Q_tensor(n, indices) with x for xa and r0 for ra0: (2n-1)!! x...x -
\* (2n-3)!! r0^2 (1-pair sum) + (2n-5)!! r0^4 (2-pair sum) - ...
C19_NumeratorIsQ ==
  (call.op = "build_derivative_numerator" /\ call.order >= 3) =>
    expr = FieldForSource(Q_tensor(call.order, call.indices))

\* C20: contract_indices contracts a delta whose summed label is in its
\* first slot: xa(i) * delta(i,k) becomes xa(k) and n(i) * delta(i,k)
\* becomes n(k), in either order of writing, just as delta(k,i) * xa(i)
\* and delta(k,i) * n(i) do.
C20_FirstSlotContraction ==
  (call.op = "product" /\ passes >= 1) =>
    \A i, k \in 1 .. MaxLabel :
      LET fs == call.factors
      IN  i # k =>
            /\ fs \in {<<delta(k, i), xa(i)>>, <<xa(i), delta(k, i)>>} => expr = One(xa(k))
            /\ fs \in {<<delta(k, i), n(i)>>, <<n(i), delta(k, i)>>} => expr = One(n(k))
            /\ fs \in {<<xa(i), delta(i, k)>>, <<delta(i, k), xa(i)>>} => expr = One(xa(k))
            /\ fs \in {<<n(i), delta(i, k)>>, <<delta(i, k), n(i)>>} => expr = One(n(k))

\* The expression a caller writes as the product of the factors fs.
ProductOf(fs) == [m \in {MProd(fs)} |-> RNum(1)]

\* Every index label is written at most twice in the product of fs.
AtMostTwice(fs) ==
  \A l \in LabelsOfTerm(MProd(fs)) : Occurrences(MProd(fs), l) <= 2

\* Deltas written in e, counted with their exponents over all terms.
DeltaCount(e) ==
  LET RECURSIVE total(_)
      total(M) == IF M = {} THEN 0
                  ELSE LET m == CHOOSE u \in M : TRUE
                       IN  SumExp(m, {f \in DOMAIN m : f.s = "delta"}) + total(M \ {m})
  IN  total(DOMAIN e)

\* The products of the vocabulary, no label written more than twice, whose
\* one-pass result a second pass changes.
IncompleteProducts ==
  {fs \in Products :
     /\ AtMostTwice(fs)
     /\ contract_indices(contract_indices(ProductOf(fs)))
          # contract_indices(ProductOf(fs))}

\* C21: one pass of contract_indices is not always complete: there are
\* products over the vocabulary, no label written more than twice, whose
\* one-pass result is changed by a second pass, and whenever the caller's
\* second pass changes such a product the first pass had contracted a
\* delta, exposing a pair of vectors that the vector rules, tried before
\* the delta rules, rewrite only on the next pass.
C21_SinglePassIncomplete ==
  /\ IncompleteProducts # {}
  /\ (call.op = "product" /\ passes = 2 /\ ~stable /\ AtMostTwice(call.factors)) =>
       LET written == ProductOf(call.factors)
           one == contract_indices(written)
       IN  /\ call.factors \in IncompleteProducts
           /\ expr = contract_indices(one)
           /\ expr # one
           /\ DeltaCount(one) < DeltaCount(written)
           /\ IndexedFactors(expr) = 0

\* Two passes have run on delta(1,2) * xa(2) * xa(1): the first left
\* xa(1)^2 and the second changed it to ra0^2.
C21_Witness ==
  /\ call.op = "product"
  /\ call.factors = <<delta(1, 2), xa(2), xa(1)>>
  /\ passes = 2
  /\ ~stable
  /\ contract_indices(ProductOf(call.factors)) = ((xa(1) :> 2) :> <<1, 1>>)
  /\ expr = ((ra0 :> 2) :> <<1, 1>>)

RuleOrders == {o \in [1 .. 6 -> 1 .. 6] : \A a, b \in 1 .. 6 : o[a] = o[b] => a = b}

\* The order of contract_indices: xa-xa, xa-n, x-x, x-n, n-n, delta.
CodeOrder == <<1, 2, 3, 4, 5, 6>>

\* The fixed point reached by iterating the pass that tries the rule
\* groups in the order rules.
RECURSIVE FixedPointInOrder(_, _)
FixedPointInOrder(e, rules) ==
  Then(ApplyRules(rules, e), LAMBDA result :
    IF result = e THEN e ELSE FixedPointInOrder(result, rules))

\* The fixed point of the caller's loop "contract until unchanged".
RECURSIVE FixedPoint(_)
FixedPoint(e) ==
  Then(contract_indices(e), LAMBDA result : IF result = e THEN e ELSE FixedPoint(result))

\* No rule group of the catalogue changes e: e is a fixed point of the
\* pass, in whatever order the pass tries its rule groups.
NoRuleApplies(e) == \A rule \in 1 .. 6 : ApplyRule(rule, e) = e

\* C23: rule application is order-independent: for a product in which no
\* label is written more than twice, whatever the order in which the rule
\* groups are tried, once no rule group changes the expression any more it
\* is the fixed point that iterating the pass of the code, with its order
\* xa-xa, xa-n, x-x, x-n, n-n, delta, reaches.
C23_OrderIndependent ==
  (call.op = "rules" /\ AtMostTwice(call.factors) /\ NoRuleApplies(expr)) =>
    /\ expr = FixedPoint(ProductOf(call.factors))
    /\ expr = FixedPointInOrder(ProductOf(call.factors), CodeOrder)

\* The rule groups have been tried on delta(1,2) * n(2) * xa(1) with the
\* delta group first: that left n(1) * xa(1), then the xa-n group left the
\* dot product, and every order of the six groups within a pass has that
\* fixed point.
C23_Witness ==
  /\ call.op = "rules"
  /\ call.factors = <<delta(1, 2), n(2), xa(1)>>
  /\ expr = One(dot)
  /\ contract_indices(ProductOf(call.factors)) = ((n(1) :> 1 @@ xa(1) :> 1) :> <<1, 1>>)
  /\ ApplyRules(<<6, 2>>, ProductOf(call.factors)) = expr
  /\ \A o \in RuleOrders : FixedPointInOrder(ProductOf(call.factors), o) = expr

\* C24: the two copies of the pairing generator are the same operation:
\* for every n >= 0 and k >= 0 the list returned by the copy in
\* DerivativeEngine is the list returned by the copy in MultipoleMoments,
\* the same pairings in the same order.
C24_SameGenerator ==
  /\ call.op = "generate_k_pairings" =>
       pairings = de_generate_k_pairings(call.order, call.k)
  /\ call.op = "de_generate_k_pairings" =>
       pairings = generate_k_pairings(call.order, call.k)

\* The copy in DerivativeEngine has returned the 15 two-pair pairings of 5
\* positions, built by its recursive branch, the first being (0,1),(2,3).
C24_Witness ==
  /\ call.op = "de_generate_k_pairings"
  /\ call.order = 5
  /\ call.k = 2
  /\ Len(pairings) = 15
  /\ pairings[1] = <<<<0, 1>>, <<2, 3>>>>
  /\ Len(de_RawPairings(5, 2)) = 30

\* The results of the recursive branch of the generator: k >= 2.
IsRecursivePairingResult == IsPairingResult /\ call.k >= 2

C26_OnlyZeroIsZero ==
  (HoldsExpression /\ verdict # "none") =>
    (verdict = "True" <=> expr = Zero)

\* C27: verify_Q_symmetry(n) returns True exactly when the tensors of the
\* permuted index lists it builds are the same expression as the tensor of
\* the generic list, and False when one of them differs.
C27_SymmetryVerdict ==
  call.op = "verify_Q_symmetry" =>
    (verdict = "True" <=>
       \A perm \in perms_to_check(call.order) : Q_tensor(call.order, perm) = expr)

\* C28: the pairing-sum path of the derivative agrees with the closed
\* forms it is bypassed by: at n = 0, 1 and 2 the value returned by
\* nth_derivative_1_over_r, 1/r0, -x(i)/r0^3 and
\* (3 x(i) x(j) - delta(i,j) r0^2)/r0^5, is
\* (-1)^n * _build_derivative_numerator(n, indices) / r0^(2n+1).
C28_GeneralPathAgrees ==
  (IsDerivativeResult /\ raised = "none" /\ call.order \in {0, 1, 2}) =>
    /\ path = "closed"
    /\ expr = recursive_derivative(call.order, call.indices)
    /\ expr = MulPow(Scale(build_derivative_numerator(call.order, call.indices),
                           RNum(IF call.order = 1 THEN -1 ELSE 1)),
                     r0, -(2 * call.order + 1))

\* The second derivative has been returned by its closed form, and the
\* pairing sum, one pair group of weight 1!! under the main term of weight
\* 3!!, gives the same two terms.
C28_Witness ==
  /\ IsDerivativeResult
  /\ call.order = 2
  /\ call.indices = <<1, 2>>
  /\ path = "closed"
  /\ build_derivative_numerator(2, <<1, 2>>)
       = ((x(1) :> 1 @@ x(2) :> 1) :> <<3, 1>> @@ (delta(1, 2) :> 1 @@ r0 :> 2) :> <<-1, 1>>)
  /\ expr = recursive_derivative(2, <<1, 2>>)

\* The free labels of a term: those written exactly once in it.
FreeLabels(m) == {l \in LabelsOfTerm(m) : Occurrences(m, l) = 1}

\* e is a single product in which no label is written more than twice.
IsTermAtMostTwice(e) ==
  /\ Cardinality(DOMAIN e) = 1
  /\ \A m \in DOMAIN e : \A l \in LabelsOfTerm(m) : Occurrences(m, l) <= 2

\* C29: contraction preserves free indices: on a product in which no
\* label is written more than twice, a pass of contract_indices leaves the
\* set of free labels, those written exactly once, unchanged, writes no
\* label that was not there, and removes only labels that were written
\* twice.
C29_FreeIndicesPreserved ==
  [][(call.op = "product" /\ passes' = passes + 1 /\ IsTermAtMostTwice(expr)) =>
       /\ Cardinality(DOMAIN expr') = 1
       /\ \A before \in DOMAIN expr : \A after \in DOMAIN expr' :
            /\ FreeLabels(after) = FreeLabels(before)
            /\ LabelsOfTerm(after) \subseteq LabelsOfTerm(before)
            /\ \A l \in LabelsOfTerm(before) \ LabelsOfTerm(after) :
                 Occurrences(before, l) = 2]_vars

\* One pass over delta(1,2) * xa(2) * n(3) has left xa(1) * n(3): the
\* summed label 2 is gone and the free labels 1 and 3 are still free.
C29_Witness ==
  /\ IsProductAfterOnePass
  /\ call.factors = <<delta(1, 2), xa(2), n(3)>>
  /\ FreeLabels(MProd(call.factors)) = {1, 3}
  /\ expr = ((xa(1) :> 1 @@ n(3) :> 1) :> <<1, 1>>)

\* The tensors built by the pairing sum from n >= 2 pairwise distinct
\* labels: Q_tensor and the derivative numerator.
IsPairingSumTensor ==
  /\ \/ IsDistinctQTensor
     \/ call.op = "build_derivative_numerator" /\ Distinct(call.indices)
  /\ call.order >= 2

\* The position of label l in the index list.
PositionOf(indices, l) == CHOOSE t \in 1 .. Len(indices) : indices[t] = l

RECURSIVE PairingCountFrom(_, _)
\* Sum over j = k .. nn \div 2 of nn! / (2^j j! (nn-2j)!).
PairingCountFrom(nn, k) ==
  IF k > nn \div 2 THEN 0
  ELSE Fact(nn) \div (Pow2(k) * Fact(k) * Fact(nn - 2 * k)) + PairingCountFrom(nn, k + 1)

\* C30: for n >= 2 pairwise distinct labels every term of Q_tensor(n) and
\* of the derivative numerator holds each of the n labels exactly once, in
\* a delta slot or as the argument of one xa or x; every delta is written
\* delta(indices[p], indices[q]) with p < q; distinct pairings give
\* distinct terms, so that the expression has exactly the sum over
\* k = 0 .. n \div 2 of n! / (2^k k! (n-2k)!) terms.
C30_TermStructure ==
  IsPairingSumTensor =>
    LET idx == call.indices
        labels == {idx[t] : t \in 1 .. Len(idx)}
    IN  /\ \A m \in DOMAIN expr :
             /\ LabelsOfTerm(m) = labels
             /\ \A l \in labels : Occurrences(m, l) = 1
             /\ \A f \in DOMAIN m :
                  f.s = "delta" => PositionOf(idx, f.i) < PositionOf(idx, f.j)
        /\ Cardinality(DOMAIN expr) = PairingCountFrom(call.order, 0)

\* The numerator of the fourth derivative has been built for the labels
\* i2, i4, i1, i3: ten terms, among them the one of the pairs of positions
\* (1,2) and (0,3), written delta(i4,i1) * delta(i2,i3).
C30_Witness ==
  /\ IsPairingSumTensor
  /\ call.op = "build_derivative_numerator"
  /\ call.indices = <<2, 4, 1, 3>>
  /\ Cardinality(DOMAIN expr) = 10
  /\ (delta(4, 1) :> 1 @@ delta(2, 3) :> 1 @@ r0 :> 4) \in DOMAIN expr

====
